---- MODULE Spec2Model ----
(***************************************************************************)
(* Model of the Brazil agricultural data service: the cache-and-fallback   *)
(* resolver of data_service.py (BrazilAgDataService), its persistence to   *)
(* brazil_ag_cache.json, and the admin endpoints of main.py.               *)
(*                                                                         *)
(* Representation of Python values.                                        *)
(*  - A dict is a function, a list a sequence, a dict row a record; a key  *)
(*    a dict lacks is a field the record lacks.                            *)
(*  - An Optional number is <<>> (None) or <<n>>.                          *)
(*  - Floats are exact fixed-point integers, each table with its own       *)
(*    scale (stated where the table is defined).  Binary floating-point    *)
(*    rounding error is not modelled.                                      *)
(*  - A cache key f"balance_{commodity}" is the tuple <<"balance",         *)
(*    commodity>>, f"exports_{commodity}_{year}" is <<"exports",           *)
(*    commodity, year>>.                                                   *)
(*  - A datetime is [year, month, day, second, microsecond], second being  *)
(*    the second of the day; its ISO-8601 text is the sequence of the      *)
(*    numeric fields of the text.                                          *)
(***************************************************************************)
EXTENDS Integers, Sequences, FiniteSets, TLC

VARIABLES
  cache,        \* self._cache
  last_updated, \* self.last_updated
  initialized,  \* self._initialized
  session,      \* self._session
  file,         \* the content of CACHE_FILE on disk
  now,          \* the wall clock read by datetime.now()
  phase,        \* "constructed", "running" or "stopped": the process lifecycle
  pending,      \* background tasks added by refresh_data and not yet run
  task,         \* where the refresh_all the event loop has started stands
  inflight,     \* the requests that arrived, each with where its handler stands
  calls,        \* requests served so far (bounds the behaviours)
  elapsed,      \* clock advances so far (bounds the behaviours)
  resp          \* the outcome of the last operation

vars == <<cache, last_updated, initialized, session, file, now, phase,
          pending, task, inflight, calls, elapsed, resp>>

(***************************************************************************)
(* Bounds of the model.                                                    *)
(***************************************************************************)
MaxCalls == 3
MaxElapsed == 2
MaxPending == 1
MaxExportCalls == 2

(***************************************************************************)
(* Configuration (data_service.py, main.py).                               *)
(***************************************************************************)
Commodity == {"soybeans", "corn", "soy_meal", "soy_oil", "wheat"}

NCM_CODES ==
  [c \in Commodity |->
     CASE c = "soybeans" -> "1201"
       [] c = "corn" -> "1005"
       [] c = "soy_meal" -> "2304"
       [] c = "soy_oil" -> "1507"
       [] c = "wheat" -> "1001"]

NcmCode(commodity) ==
  IF commodity \in DOMAIN NCM_CODES THEN NCM_CODES[commodity] ELSE ""

MONTH_NAMES ==
  << "Jan", "Feb", "Mar", "Apr", "May", "Jun",
     "Jul", "Aug", "Sep", "Oct", "Nov", "Dec" >>

DefaultAdminKey == "farmhandpro-refresh-2025"

(***************************************************************************)
(* Python built-ins.                                                       *)
(***************************************************************************)
Min(a, b) == IF a < b THEN a ELSE b
Max(a, b) == IF a > b THEN a ELSE b

None == <<>>
Some(x) == <<x>>

\* name = value, followed by the statements K that use the name; the value
\* is computed once, before the statements.
With(value, K(_)) == CHOOSE y \in {K(x) : x \in {value}} : TRUE

\* seq[start:], start negative counting from the end.
SliceFrom(seq, start) ==
  LET lo == IF start < 0 THEN Max(Len(seq) + start, 0) ELSE Min(start, Len(seq))
  IN  SubSeq(seq, lo + 1, Len(seq))

\* seq[:stop].
SliceTo(seq, stop) ==
  LET hi == IF stop < 0 THEN Max(Len(seq) + stop, 0) ELSE Min(stop, Len(seq))
  IN  SubSeq(seq, 1, hi)

Pow10(n) == CASE n = 0 -> 1 [] n = 1 -> 10 [] n = 2 -> 100 [] n = 3 -> 1000

\* The integer nearest to num/den (den > 0), a tie going to the even one, as
\* round() does.
RoundDiv(num, den) ==
  LET q == num \div den
      r == num % den
  IN  IF 2 * r < den THEN q
      ELSE IF 2 * r > den THEN q + 1
      ELSE IF q % 2 = 0 THEN q ELSE q + 1

\* round(x, ndigits) of the fixed-point number x of the given scale (x/scale),
\* in the same scale; scale is a multiple of 10^ndigits.
Round(x, ndigits, scale) ==
  LET grain == scale \div Pow10(ndigits)
  IN  RoundDiv(x, grain) * grain

(***************************************************************************)
(* datetime.                                                               *)
(***************************************************************************)
IsLeap(y) == (y % 4 = 0 /\ y % 100 # 0) \/ y % 400 = 0

DaysInMonth(y, m) ==
  IF m = 2 THEN (IF IsLeap(y) THEN 29 ELSE 28)
  ELSE IF m \in {4, 6, 9, 11} THEN 30 ELSE 31

\* A variant of isoformat that writes whole seconds only
\* (isoformat(timespec="seconds")).
isoformat_seconds(dt) ==
  << dt.year, dt.month, dt.day,
     dt.second \div 3600, (dt.second \div 60) % 60, dt.second % 60 >>

\* datetime.isoformat(): "YYYY-MM-DDTHH:MM:SS", followed by ".ffffff" only
\* when the microsecond is not 0.
isoformat(dt) ==
  LET hms == << dt.second \div 3600, (dt.second \div 60) % 60, dt.second % 60 >>
  IN  << dt.year, dt.month, dt.day >> \o hms \o
      (IF dt.microsecond = 0 THEN <<>> ELSE << dt.microsecond >>)

\* Whether datetime.fromisoformat() accepts the text: a date, a date and a
\* time, or a date and a time with a fraction, every field in range.
IsIsoText(t) ==
  /\ Len(t) \in {3, 6, 7}
  /\ t[2] \in 1..12
  /\ t[3] \in 1..DaysInMonth(t[1], t[2])
  /\ Len(t) >= 6 => (t[4] \in 0..23 /\ t[5] \in 0..59 /\ t[6] \in 0..59)
  /\ Len(t) = 7 => t[7] \in 0..999999

fromisoformat(t) ==
  [year |-> t[1], month |-> t[2], day |-> t[3],
   second |-> IF Len(t) >= 6 THEN t[4] * 3600 + t[5] * 60 + t[6] ELSE 0,
   microsecond |-> IF Len(t) = 7 THEN t[7] ELSE 0]

(***************************************************************************)
(* Fallback tables.  Balance-sheet values are in thousandths of an MMT,    *)
(* production values in hundredths, destination, port and soy-complex      *)
(* values in tenths, export volumes in hundredths of an MMT, prices in BRL.*)
(* Non-ASCII letters of port and location names are written in ASCII.      *)
(***************************************************************************)
DefaultVolumes == << 500, 500, 500, 500, 500, 500, 500, 500, 500, 500, 500, 500 >>

balance_sheet_data ==
  [soybeans |->
     << [year |-> "2020/21", openingStock |-> 2500, production |-> 135900, imports |-> 400, consumption |-> 48800, exports |-> 86100, endingStock |-> 3900],
       [year |-> "2021/22", openingStock |-> 3900, production |-> 125500, imports |-> 300, consumption |-> 51400, exports |-> 78700, endingStock |-> -400],
       [year |-> "2022/23", openingStock |-> -400, production |-> 154600, imports |-> 200, consumption |-> 53900, exports |-> 98000, endingStock |-> 2500],
       [year |-> "2023/24", openingStock |-> 2500, production |-> 147400, imports |-> 300, consumption |-> 55800, exports |-> 92400, endingStock |-> 2000],
       [year |-> "2024/25", openingStock |-> 7231, production |-> 171481, imports |-> 969, consumption |-> 60769, exports |-> 108181, endingStock |-> 10731],
       [year |-> "2025/26", openingStock |-> 10731, production |-> 176124, imports |-> 500, consumption |-> 64266, exports |-> 111791, endingStock |-> 11298, isProjection |-> TRUE] >>,
   corn |->
     << [year |-> "2020/21", openingStock |-> 11200, production |-> 87100, imports |-> 3100, consumption |-> 71500, exports |-> 20800, endingStock |-> 9100],
       [year |-> "2021/22", openingStock |-> 9100, production |-> 113100, imports |-> 1800, consumption |-> 77000, exports |-> 44700, endingStock |-> 2300],
       [year |-> "2022/23", openingStock |-> 2300, production |-> 131900, imports |-> 1600, consumption |-> 83000, exports |-> 52000, endingStock |-> 800],
       [year |-> "2023/24", openingStock |-> 800, production |-> 115700, imports |-> 1500, consumption |-> 86500, exports |-> 32500, endingStock |-> -1000],
       [year |-> "2024/25", openingStock |-> -1000, production |-> 139700, imports |-> 1200, consumption |-> 90500, exports |-> 40000, endingStock |-> 9400],
       [year |-> "2025/26", openingStock |-> 9400, production |-> 138800, imports |-> 1000, consumption |-> 94500, exports |-> 46500, endingStock |-> 8200, isProjection |-> TRUE] >>,
   soy_meal |->
     << [year |-> "2024/25", openingStock |-> 3367, production |-> 44044, imports |-> 0, consumption |-> 19500, exports |-> 23300, endingStock |-> 4611],
       [year |-> "2025/26", openingStock |-> 4611, production |-> 46620, imports |-> 1, consumption |-> 20300, exports |-> 24696, endingStock |-> 6236, isProjection |-> TRUE] >>,
   soy_oil |->
     << [year |-> "2024/25", openingStock |-> 465, production |-> 11426, imports |-> 105, consumption |-> 10318, exports |-> 1363, endingStock |-> 316],
       [year |-> "2025/26", openingStock |-> 316, production |-> 12155, imports |-> 100, consumption |-> 10811, exports |-> 1400, endingStock |-> 360, isProjection |-> TRUE] >>,
   wheat |->
     << [year |-> "2023/24", openingStock |-> 800, production |-> 8100, imports |-> 5500, consumption |-> 12500, exports |-> 300, endingStock |-> 1600],
       [year |-> "2024/25", openingStock |-> 1600, production |-> 7900, imports |-> 5800, consumption |-> 12800, exports |-> 200, endingStock |-> 2300],
       [year |-> "2025/26", openingStock |-> 2300, production |-> 8500, imports |-> 5500, consumption |-> 13000, exports |-> 300, endingStock |-> 3000, isProjection |-> TRUE] >>]

\* return data.get(commodity, [])
\* A variant of BalanceSheetFallback that gives an unknown commodity the
\* soybeans table (data.get(commodity, data["soybeans"])).
BalanceSheetFallbackSoybeans(commodity) ==
  IF commodity \in DOMAIN balance_sheet_data THEN balance_sheet_data[commodity]
  ELSE balance_sheet_data["soybeans"]

\* return data.get(commodity, [])
BalanceSheetFallback(commodity) ==
  IF commodity \in DOMAIN balance_sheet_data THEN balance_sheet_data[commodity] ELSE <<>>

production_data ==
  [soybeans |->
     << [cropYear |-> "2015/16", areaMha |-> 3330, productionMmt |-> 9540, yieldMtHa |-> 287],
       [cropYear |-> "2016/17", areaMha |-> 3390, productionMmt |-> 11410, yieldMtHa |-> 336],
       [cropYear |-> "2017/18", areaMha |-> 3510, productionMmt |-> 11930, yieldMtHa |-> 340],
       [cropYear |-> "2018/19", areaMha |-> 3590, productionMmt |-> 11500, yieldMtHa |-> 321],
       [cropYear |-> "2019/20", areaMha |-> 3690, productionMmt |-> 12480, yieldMtHa |-> 338],
       [cropYear |-> "2020/21", areaMha |-> 3850, productionMmt |-> 13590, yieldMtHa |-> 353],
       [cropYear |-> "2021/22", areaMha |-> 4100, productionMmt |-> 12550, yieldMtHa |-> 306],
       [cropYear |-> "2022/23", areaMha |-> 4320, productionMmt |-> 15460, yieldMtHa |-> 358],
       [cropYear |-> "2023/24", areaMha |-> 4510, productionMmt |-> 14740, yieldMtHa |-> 327],
       [cropYear |-> "2024/25", areaMha |-> 4740, productionMmt |-> 17150, yieldMtHa |-> 362],
       [cropYear |-> "2025/26", areaMha |-> 4890, productionMmt |-> 17610, yieldMtHa |-> 360, isProjection |-> TRUE] >>,
   corn |->
     << [cropYear |-> "2015/16", areaMha |-> 1590, productionMmt |-> 6410, yieldMtHa |-> 403],
       [cropYear |-> "2016/17", areaMha |-> 1760, productionMmt |-> 9780, yieldMtHa |-> 556],
       [cropYear |-> "2017/18", areaMha |-> 1660, productionMmt |-> 8070, yieldMtHa |-> 486],
       [cropYear |-> "2018/19", areaMha |-> 1750, productionMmt |-> 10000, yieldMtHa |-> 571],
       [cropYear |-> "2019/20", areaMha |-> 1850, productionMmt |-> 10250, yieldMtHa |-> 554],
       [cropYear |-> "2020/21", areaMha |-> 1980, productionMmt |-> 8710, yieldMtHa |-> 440],
       [cropYear |-> "2021/22", areaMha |-> 2140, productionMmt |-> 11310, yieldMtHa |-> 529],
       [cropYear |-> "2022/23", areaMha |-> 2200, productionMmt |-> 13190, yieldMtHa |-> 599],
       [cropYear |-> "2023/24", areaMha |-> 2070, productionMmt |-> 11570, yieldMtHa |-> 559],
       [cropYear |-> "2024/25", areaMha |-> 2220, productionMmt |-> 13970, yieldMtHa |-> 629],
       [cropYear |-> "2025/26", areaMha |-> 2270, productionMmt |-> 13880, yieldMtHa |-> 612, isProjection |-> TRUE] >>]

\* return data.get(commodity, [])
ProductionFallback(commodity) ==
  IF commodity \in DOMAIN production_data THEN production_data[commodity] ELSE <<>>

patterns ==
  [soybeans |->
     ( 2024 :> << 180, 520, 1280, 1420, 1480, 1320, 1080, 920, 780, 520, 360, 200 >>
    @@ 2025 :> << 210, 600, 1350, 1500, 1550, 1380, 1120, 960, 820, 580, 400, 220 >> ),
   corn |->
     ( 2024 :> << 380, 320, 180, 100, 60, 80, 350, 750, 850, 700, 550, 400 >>
    @@ 2025 :> << 400, 350, 200, 120, 80, 100, 400, 800, 900, 750, 600, 450 >> ),
   soy_meal |->
     ( 2024 :> << 180, 190, 200, 210, 200, 190, 180, 190, 200, 210, 200, 180 >>
    @@ 2025 :> << 190, 200, 210, 220, 210, 200, 190, 200, 210, 220, 210, 190 >> ),
   soy_oil |->
     ( 2024 :> << 10, 11, 12, 13, 12, 11, 10, 11, 12, 13, 12, 10 >>
    @@ 2025 :> << 11, 12, 13, 14, 13, 12, 11, 12, 13, 14, 13, 11 >> )]

\* patterns.get(commodity, {}).get(year, [5.0] * 12)
Volumes(commodity, year) ==
  IF commodity \in DOMAIN patterns /\ year \in DOMAIN patterns[commodity]
  THEN patterns[commodity][year] ELSE DefaultVolumes

prices ==
  [soybeans |->
     << [location |-> "MT", series |-> << 130, 126, 119, 115, 113, 111, 108, 113, 119, 125, 131, 133 >>],
        [location |-> "PR", series |-> << 140, 136, 129, 125, 123, 121, 118, 123, 129, 135, 141, 143 >>],
        [location |-> "Paranagua", series |-> << 150, 146, 139, 135, 133, 131, 128, 133, 139, 145, 151, 153 >>] >>,
   corn |->
     << [location |-> "MT", series |-> << 58, 56, 50, 49, 46, 45, 43, 46, 48, 53, 57, 59 >>],
        [location |-> "PR", series |-> << 68, 65, 59, 58, 55, 54, 52, 55, 57, 62, 66, 68 >>] >>,
   wheat |->
     << [location |-> "PR", series |-> << 88, 85, 82, 80, 78, 77, 79, 82, 85, 88, 91, 93 >>] >>]

\* prices.get(commodity, {}): the locations of the commodity in the order of
\* the dict, each with its series.
CommodityPrices(commodity) ==
  IF commodity \in DOMAIN prices THEN prices[commodity] ELSE <<>>

destinations ==
  << [countryCode |-> "160", countryName |-> "China", sharePct |-> 765, volumeMmt |-> 825],
     [countryCode |-> "270", countryName |-> "Spain", sharePct |-> 38, volumeMmt |-> 41],
     [countryCode |-> "764", countryName |-> "Thailand", sharePct |-> 29, volumeMmt |-> 31],
     [countryCode |-> "573", countryName |-> "Netherlands", sharePct |-> 20, volumeMmt |-> 22],
     [countryCode |-> "792", countryName |-> "Turkey", sharePct |-> 19, volumeMmt |-> 20],
     [countryCode |-> "399", countryName |-> "Japan", sharePct |-> 15, volumeMmt |-> 16],
     [countryCode |-> "364", countryName |-> "Iran", sharePct |-> 14, volumeMmt |-> 15],
     [countryCode |-> "220", countryName |-> "Egypt", sharePct |-> 11, volumeMmt |-> 12],
     [countryCode |-> "586", countryName |-> "Pakistan", sharePct |-> 10, volumeMmt |-> 11],
     [countryCode |-> "000", countryName |-> "Others", sharePct |-> 79, volumeMmt |-> 85] >>

ports ==
  << [portName |-> "Santos", state |-> "SP", volumeMmt |-> 345, sharePct |-> 320],
     [portName |-> "Paranagua", state |-> "PR", volumeMmt |-> 194, sharePct |-> 180],
     [portName |-> "Rio Grande", state |-> "RS", volumeMmt |-> 151, sharePct |-> 140],
     [portName |-> "Sao Luis", state |-> "MA", volumeMmt |-> 129, sharePct |-> 120],
     [portName |-> "Barcarena", state |-> "PA", volumeMmt |-> 97, sharePct |-> 90],
     [portName |-> "Sao Francisco do Sul", state |-> "SC", volumeMmt |-> 75, sharePct |-> 70],
     [portName |-> "Others", state |-> "-", volumeMmt |-> 86, sharePct |-> 80] >>

soja_graos ==
  << [safra |-> "2024/25", estoque_inicial |-> 72313, producao |-> 1714805, importacao |-> 9686, suprimento |-> 1796804, consumo |-> 607688, exportacao |-> 1081811, estoque_final |-> 107306],
     [safra |-> "2025/26", estoque_inicial |-> 107306, producao |-> 1761244, importacao |-> 5000, suprimento |-> 1873550, consumo |-> 642659, exportacao |-> 1117908, estoque_final |-> 112982] >>

farelo ==
  << [safra |-> "2024/25", estoque_inicial |-> 33673, producao |-> 440439, importacao |-> 1, suprimento |-> 474113, consumo |-> 195000, exportacao |-> 233004, estoque_final |-> 46109],
     [safra |-> "2025/26", estoque_inicial |-> 46109, producao |-> 466203, importacao |-> 10, suprimento |-> 512323, consumo |-> 203000, exportacao |-> 246960, estoque_final |-> 62363] >>

oleo ==
  << [safra |-> "2024/25", estoque_inicial |-> 4652, producao |-> 114260, importacao |-> 1052, suprimento |-> 119965, consumo |-> 103180, exportacao |-> 13629, estoque_final |-> 3156],
     [safra |-> "2025/26", estoque_inicial |-> 3156, producao |-> 121553, importacao |-> 1000, suprimento |-> 125709, consumo |-> 108110, exportacao |-> 14000, estoque_final |-> 3599] >>

\* data = []; for idx, x in enumerate(xs): data.append(Row(idx)), n = len(xs)
ForEach(n, Row(_)) == SubSeq([idx \in 1..n |-> Row(idx)], 1, n)

(***************************************************************************)
(* dict operations.                                                        *)
(***************************************************************************)
EmptyDict == <<>>

DictGet(d, k, default) == IF k \in DOMAIN d THEN d[k] ELSE default

DictSet(d, k, v) == (k :> v) @@ d

BalanceKey(commodity) == << "balance", commodity >>
ExportsKey(commodity, year) == << "exports", commodity, year >>

(***************************************************************************)
(* Balance sheet.  The service state s is [cache, last_updated]; t is the  *)
(* value datetime.now() returns during the call.  Every operation returns  *)
(* [cache, last_updated, ret]: the state it leaves and the dict it returns.*)
(***************************************************************************)
\* A variant of BalanceWindowOnHit that takes the first rows (cached[:years]).
BalanceWindowFirstRows(cached, years) == SliceTo(cached, years)

\* A variant of BalanceWindowOnHit that returns the stored table whole
\* (data = cached).
BalanceWindowWhole(cached, years) == cached

\* cached[-years:] if len(cached) > years else cached
BalanceWindowOnHit(cached, years) ==
  IF Len(cached) > years THEN SliceFrom(cached, -years) ELSE cached

\* data[-years:]
BalanceWindowOnMiss(data, years) == SliceFrom(data, -years)

\* A variant of StoredStamp that ignores the stored timestamp (datetime.now()).
StampOfThisCall(lu, cache_key, t) == t

\* self.last_updated.get(cache_key, datetime.now())
StoredStamp(lu, cache_key, t) == DictGet(lu, cache_key, t)

\* A variant of CacheStore that forgets the write.
CacheStoreSkipped(c, cache_key, data) == c

\* A variant of CacheStore that replaces the map
\* (self._cache = {cache_key: data}).
CacheStoreReplacing(c, cache_key, data) == DictSet(EmptyDict, cache_key, data)

\* self._cache[cache_key] = data
CacheStore(c, cache_key, data) == DictSet(c, cache_key, data)

\* A variant of StampNow that replaces the map
\* (self.last_updated = {cache_key: datetime.now()}).
StampOnlyThisKey(lu, cache_key, t) == (cache_key :> t)

\* self.last_updated[cache_key] = datetime.now()
StampNow(lu, cache_key, t) == DictSet(lu, cache_key, t)

get_balance_sheet(s, t, commodity, years) ==
  LET cache_key == BalanceKey(commodity)
      Envelope(stamp, rows) ==
        [success |-> TRUE, commodity |-> commodity, unit |-> "MMT",
         source |-> "CONAB", last_updated |-> stamp, data |-> rows]
  IN  IF cache_key \in DOMAIN s.cache
      THEN [cache |-> s.cache, last_updated |-> s.last_updated,
            ret |-> Envelope(StoredStamp(s.last_updated, cache_key, t),
                             BalanceWindowOnHit(s.cache[cache_key], years))]
      ELSE With(BalanceSheetFallback(commodity), LAMBDA data :
           With(StampNow(s.last_updated, cache_key, t), LAMBDA lu2 :
             [cache |-> CacheStore(s.cache, cache_key, data),
              last_updated |-> lu2,
              ret |-> Envelope(lu2[cache_key], BalanceWindowOnMiss(data, years))]))

(***************************************************************************)
(* Soy complex.                                                            *)
(***************************************************************************)
get_soy_complex_balance(s, t) ==
  [cache |-> s.cache, last_updated |-> s.last_updated,
   ret |-> [success |-> TRUE, source |-> "CONAB e Secex",
            unit |-> "mil t (thousand metric tons)", last_updated |-> t,
            soja_graos |-> soja_graos, farelo |-> farelo, oleo |-> oleo,
            note |-> "Estimativa em janeiro/2026. Estoque de passagem 31 de dezembro."]]

(***************************************************************************)
(* Monthly exports.  A volume vol (MMT) is the integer vol * VolScale, so  *)
(* that vol * (day_of_month / 30) is exact.  volumeMmt and the year-to-date*)
(* figures are in the same scale.  volumeMt (vol * 1_000_000) and toChinaMt*)
(* are in thirds of a tonne, valueUsd (vol * 420_000_000) in thousands of  *)
(* USD, china_share in hundredths, toChinaPct in hundredths of a percent.  *)
(***************************************************************************)
VolScale == 100 * 30

ThirdTonnesPerUnit == 1000000 \div 1000
KiloUsdPerUnit == 420000000 \div 3000000

\* vol = vol * (day_of_month / 30), vols being hundredths of an MMT
PartialVolume(vols, day_of_month) == vols * day_of_month

FullVolume(vols) == vols * 30

\* A variant of IsPartial that marks the month of the clock in every year
\* (is_partial = (month == datetime.now().month)).
IsPartialAnyYear(year, month, t) == month = t.month

\* is_partial = (year == datetime.now().year and month == current_month)
IsPartial(year, month, t) ==
  LET current_month == IF year = t.year THEN t.month ELSE 12
  IN  year = t.year /\ month = current_month

\* One row of the table: the body of "for month_idx, vol in enumerate(volumes)",
\* vol being the volume after the partial-month scaling.
ExportRow(commodity, year, month_idx, is_partial, vol) ==
  LET china_share == IF commodity = "soybeans" THEN 77 ELSE 2
      has_china == commodity \in {"soybeans", "soy_meal"}
  IN  [year |-> year, month |-> month_idx,
       monthName |-> MONTH_NAMES[month_idx],
       volumeMt |-> vol * ThirdTonnesPerUnit,
       volumeMmt |-> Round(vol, 2, VolScale),
       valueUsd |-> vol * KiloUsdPerUnit,
       toChinaMt |-> IF has_china
                     THEN Some(vol * china_share * (ThirdTonnesPerUnit \div 100))
                     ELSE None,
       toChinaPct |-> IF has_china THEN Some(china_share * 100) ELSE None,
       isPartial |-> is_partial]

_get_monthly_exports_fallback(commodity, year, t) ==
  With(Volumes(commodity, year), LAMBDA volumes :
    ForEach(Len(volumes), LAMBDA month_idx :
      ExportRow(commodity, year, month_idx, IsPartial(year, month_idx, t),
                IF IsPartial(year, month_idx, t)
                THEN PartialVolume(volumes[month_idx], t.day)
                ELSE FullVolume(volumes[month_idx]))))

\* sum(row.get(f, 0) for row in rows)
RECURSIVE SumField(_, _)
SumField(rows, f) ==
  IF rows = <<>> THEN 0
  ELSE DictGet(Head(rows), f, 0) + SumField(Tail(rows), f)

\* sum(row.get("toChinaMt", 0) or 0 for row in data), in thirds of a tonne
RECURSIVE SumToChina(_)
SumToChina(rows) ==
  IF rows = <<>> THEN 0
  ELSE (IF DictGet(Head(rows), "toChinaMt", Some(0)) = None THEN 0
        ELSE DictGet(Head(rows), "toChinaMt", Some(0))[1])
       + SumToChina(Tail(rows))

\* A variant of YtdTotalMmt that rounds to one decimal (round(ytd_total, 1)).
YtdTotalMmtOneDecimal(data) == Round(SumField(data, "volumeMmt"), 1, VolScale)

\* round(sum(row.get("volumeMmt", 0) for row in data), 2)
YtdTotalMmt(data) == Round(SumField(data, "volumeMmt"), 2, VolScale)

\* A variant of YtdToChinaMmt that ignores the flag of the call.
YtdToChinaMmtAlways(data, include_china) ==
  With(Some(SumToChina(data)), LAMBDA ytd_china :
    IF ytd_china[1] # 0
    THEN Some(RoundDiv(ytd_china[1], 1000 * 30) * 30)
    ELSE None)

\* ytd_china = sum(...) / 1_000_000 if include_china else None;
\* round(ytd_china, 2) if ytd_china else None: a zero sum is falsy.
YtdToChinaMmt(data, include_china) ==
  With(IF include_china THEN Some(SumToChina(data)) ELSE None, LAMBDA ytd_china :
    IF ytd_china # None /\ ytd_china[1] # 0
    THEN Some(RoundDiv(ytd_china[1], 1000 * 30) * 30)
    ELSE None)

get_monthly_exports(s, t, commodity, year, include_china) ==
  LET cache_key == ExportsKey(commodity, year)
      hit == cache_key \in DOMAIN s.cache
      Envelope(stamp, data) ==
        [success |-> TRUE, commodity |-> commodity,
         ncmCode |-> NcmCode(commodity), year |-> year,
         source |-> "SECEX/MDIC ComexStat", last_updated |-> stamp,
         data |-> data,
         ytdTotalMmt |-> YtdTotalMmt(data),
         ytdToChinaMmt |-> YtdToChinaMmt(data, include_china)]
  IN  IF hit
      THEN [cache |-> s.cache, last_updated |-> s.last_updated,
            ret |-> Envelope(StoredStamp(s.last_updated, cache_key, t),
                             s.cache[cache_key])]
      ELSE With(_get_monthly_exports_fallback(commodity, year, t), LAMBDA data :
           With(StampNow(s.last_updated, cache_key, t), LAMBDA lu2 :
             [cache |-> CacheStore(s.cache, cache_key, data),
              last_updated |-> lu2,
              ret |-> Envelope(StoredStamp(lu2, cache_key, t), data)]))

(***************************************************************************)
(* Exports by destination and by port.  volumeMt is in tenths of a tonne,  *)
(* valueUsd in tenths of a million USD.                                    *)
(***************************************************************************)
get_exports_by_destination(s, t, commodity, year, top_n) ==
  LET Row(i) == [countryCode |-> destinations[i].countryCode,
                 countryName |-> destinations[i].countryName,
                 sharePct |-> destinations[i].sharePct,
                 volumeMmt |-> destinations[i].volumeMmt,
                 volumeMt |-> destinations[i].volumeMmt * 1000000,
                 valueUsd |-> destinations[i].volumeMmt * 420]
  IN  With(ForEach(Len(destinations), Row), LAMBDA rows :
        [cache |-> s.cache, last_updated |-> s.last_updated,
         ret |-> [success |-> TRUE, commodity |-> commodity, year |-> year,
                  source |-> "SECEX/MDIC ComexStat", last_updated |-> t,
                  totalMmt |-> Round(SumField(rows, "volumeMmt"), 1, 10),
                  data |-> SliceTo(rows, top_n)]])

get_exports_by_port(s, t, commodity, year) ==
  [cache |-> s.cache, last_updated |-> s.last_updated,
   ret |-> [success |-> TRUE, commodity |-> commodity, year |-> year,
            source |-> "SECEX/MDIC ComexStat", last_updated |-> t,
            data |-> ports]]

(***************************************************************************)
(* Production.                                                             *)
(***************************************************************************)
get_production(s, t, commodity, years) ==
  LET data == ProductionFallback(commodity)
  IN  [cache |-> s.cache, last_updated |-> s.last_updated,
       ret |-> [success |-> TRUE, commodity |-> commodity,
                source |-> "CONAB SerieHistoricaGraos", last_updated |-> t,
                data |-> SliceFrom(data, -years)]]

(***************************************************************************)
(* Monthly prices.  priceUsd is in hundredths of a USD, momChangePct in    *)
(* tenths of a percent.  location is None or Some(name).                   *)
(***************************************************************************)
RECURSIVE Flatten(_)
Flatten(ss) == IF ss = <<>> THEN <<>> ELSE Head(ss) \o Flatten(Tail(ss))

DefaultPrices == << 100, 100, 100, 100, 100, 100, 100, 100, 100, 100, 100, 100 >>

\* prices.get(commodity, {}).get(loc, [100]*12)
PricesAt(commodity_prices, loc) ==
  IF \E i \in 1..Len(commodity_prices) : commodity_prices[i].location = loc
  THEN commodity_prices[CHOOSE i \in 1..Len(commodity_prices) :
                          commodity_prices[i].location = loc].series
  ELSE DefaultPrices

\* The rows of one location: the body of "for loc in locations_to_use".
PriceRows(year, loc, loc_prices) ==
  LET Row(month_idx) ==
        LET price == loc_prices[month_idx]
            prev_price == IF month_idx > 1 THEN loc_prices[month_idx - 1]
                          ELSE price
        IN  [year |-> year, month |-> month_idx,
             monthName |-> MONTH_NAMES[month_idx], location |-> loc,
             priceBrl |-> price,
             priceUsd |-> RoundDiv(price * 100, 6),
             momChangePct |-> IF prev_price # 0
                              THEN RoundDiv((price - prev_price) * 1000, prev_price)
                              ELSE 0]
  IN  ForEach(Len(loc_prices), Row)

_get_prices_fallback(commodity, year, location) ==
  With(CommodityPrices(commodity), LAMBDA commodity_prices :
  With(IF location # None /\ location # Some("")
       THEN << location[1] >>
       ELSE ForEach(Len(commodity_prices), LAMBDA i : commodity_prices[i].location),
       LAMBDA locations_to_use :
    With(ForEach(Len(locations_to_use),
                 LAMBDA i : With(PricesAt(commodity_prices, locations_to_use[i]),
                                 LAMBDA loc_prices :
                                   PriceRows(year, locations_to_use[i], loc_prices))),
         Flatten)))

get_monthly_prices(s, t, commodity, year, location) ==
  [cache |-> s.cache, last_updated |-> s.last_updated,
   ret |-> [success |-> TRUE, commodity |-> commodity, unit |-> "BRL/60kg bag",
            source |-> "CONAB PrecosMensalUF", last_updated |-> t,
            data |-> _get_prices_fallback(commodity, year, location)]]

(***************************************************************************)
(* Dashboard summary: the fifteen awaited calls in source order, each on   *)
(* the state the previous one left.  None of the awaited coroutines ever   *)
(* suspends, so the whole summary runs without yielding to the event loop. *)
(***************************************************************************)
survey_data ==
  "2025/26" :>
    << [survey |-> 1, month |-> "Oct 2025", soybeans |-> 1776, corn |-> 1386, total |-> 3547],
       [survey |-> 2, month |-> "Nov 2025", soybeans |-> 1776, corn |-> 1388, total |-> 3551],
       [survey |-> 3, month |-> "Dec 2025", soybeans |-> 1771, corn |-> 1388, total |-> 3545],
       [survey |-> 4, month |-> "Jan 2026", soybeans |-> 1761, corn |-> 1388, total |-> 3540,
        isCurrent |-> TRUE] >>

get_dashboard_summary(s, t) ==
  With(get_balance_sheet(s, t, "soybeans", 6), LAMBDA soy_balance :
  With(get_balance_sheet(soy_balance, t, "corn", 6), LAMBDA corn_balance :
  With(get_monthly_exports(corn_balance, t, "soybeans", 2024, TRUE), LAMBDA soy_exports_2024 :
  With(get_monthly_exports(soy_exports_2024, t, "soybeans", 2025, TRUE), LAMBDA soy_exports_2025 :
  With(get_monthly_exports(soy_exports_2025, t, "corn", 2024, TRUE), LAMBDA corn_exports_2024 :
  With(get_monthly_exports(corn_exports_2024, t, "corn", 2025, TRUE), LAMBDA corn_exports_2025 :
  With(get_production(corn_exports_2025, t, "soybeans", 11), LAMBDA soy_production :
  With(get_production(soy_production, t, "corn", 11), LAMBDA corn_production :
  With(get_monthly_prices(corn_production, t, "soybeans", 2024, None), LAMBDA soy_prices_2024 :
  With(get_monthly_prices(soy_prices_2024, t, "soybeans", 2025, None), LAMBDA soy_prices_2025 :
  With(get_monthly_prices(soy_prices_2025, t, "corn", 2024, None), LAMBDA corn_prices_2024 :
  With(get_monthly_prices(corn_prices_2024, t, "corn", 2025, None), LAMBDA corn_prices_2025 :
  With(get_exports_by_destination(corn_prices_2025, t, "soybeans", 2025, 10), LAMBDA export_destinations :
  With(get_exports_by_port(export_destinations, t, "soybeans", 2025), LAMBDA export_ports :
  With(get_soy_complex_balance(export_ports, t), LAMBDA soy_complex :
    [cache |-> soy_complex.cache, last_updated |-> soy_complex.last_updated,
         ret |-> [success |-> TRUE, last_updated |-> t,
                  data_sources |-> << "CONAB", "SECEX/MDIC ComexStat" >>,
                  production |-> [soybeans |-> soy_production.ret.data,
                                  corn |-> corn_production.ret.data],
                  balance_sheets |-> [soybeans |-> soy_balance.ret.data,
                                      corn |-> corn_balance.ret.data],
                  monthly_exports |->
                    [soybeans |-> [y2024 |-> soy_exports_2024.ret.data,
                                   y2025 |-> soy_exports_2025.ret.data],
                     corn |-> [y2024 |-> corn_exports_2024.ret.data,
                               y2025 |-> corn_exports_2025.ret.data]],
                  monthly_prices |->
                    [soybeans |-> [y2024 |-> soy_prices_2024.ret.data,
                                   y2025 |-> soy_prices_2025.ret.data],
                     corn |-> [y2024 |-> corn_prices_2024.ret.data,
                               y2025 |-> corn_prices_2025.ret.data]],
                  export_destinations |-> [soybeans |-> export_destinations.ret.data],
                  export_ports |-> export_ports.ret.data,
                  soy_complex |-> [soja_graos |-> soy_complex.ret.soja_graos,
                                   farelo |-> soy_complex.ret.farelo,
                                   oleo |-> soy_complex.ret.oleo],
                  survey_data |-> survey_data]])))))))))))))))

(***************************************************************************)
(* Persistence.  The file on disk is one of                                *)
(*   [kind |-> "absent"]      os.path.exists(CACHE_FILE) is false          *)
(*   [kind |-> "unreadable"]  open(CACHE_FILE, 'r') raises PermissionError *)
(*   [kind |-> "malformed"]   json.load raises JSONDecodeError             *)
(*   [kind |-> "nonobject"]   JSON, but not an object: data.get raises     *)
(*   [kind |-> "json", doc |-> d]  a JSON object d, a record that may have *)
(*       the members cache (key -> rows) and last_updated (the sequence of *)
(*       its <<key, text>> members in document order).                     *)
(* json.dump and json.load map dict to object, list to array, float to     *)
(* number (repr round-trips), None to null and bool to true/false, so the  *)
(* rows of the cache have the same representation in memory and in the     *)
(* document; a datetime is not serializable and goes through isoformat.    *)
(***************************************************************************)
AbsentFile == [kind |-> "absent"]
UnreadableFile == [kind |-> "unreadable"]
MalformedFile == [kind |-> "malformed"]
NonObjectFile == [kind |-> "nonobject"]
JsonFile(doc) == [kind |-> "json", doc |-> doc]

NoError == "none"

\* A variant of CaughtByExceptException that catches decoding errors only
\* (except (ValueError, json.JSONDecodeError)).
CaughtByExceptValueError(exc) == exc \in {"JSONDecodeError", "ValueError"}

\* except Exception: every exception the load and the save can raise derives
\* from Exception.
CaughtByExceptException(exc) ==
  exc \in {"PermissionError", "OSError", "JSONDecodeError", "AttributeError",
           "ValueError"}

\* The members of a dict in some order; the order of the members this service
\* writes is immaterial, every text it writes being accepted by fromisoformat.
RECURSIVE Items(_)
Items(d) ==
  IF DOMAIN d = {} THEN <<>>
  ELSE With(CHOOSE x \in DOMAIN d : TRUE, LAMBDA k :
         << << k, d[k] >> >> \o Items([x \in DOMAIN d \ {k} |-> d[x]]))

\* json.dump of self._cache: key -> array of objects.
JsonCache(c) == [k \in DOMAIN c |-> c[k]]

\* {"cache": self._cache,
\*  "last_updated": {k: v.isoformat() for k, v in self.last_updated.items()}}
Document(s) ==
  With(Items(s.last_updated), LAMBDA members :
    [cache |-> JsonCache(s.cache),
     last_updated |-> ForEach(Len(members),
                              LAMBDA i : << members[i][1], isoformat(members[i][2]) >>)])

\* A variant of LoadStamps that leaves the timestamps of the document unread.
LoadStampsSkipped(lu, members) == [last_updated |-> lu, exc |-> NoError]

\* for key, val in data.get("last_updated", {}).items():
\*     self.last_updated[key] = datetime.fromisoformat(val)
\* run until the first text fromisoformat rejects.
RECURSIVE LoadStamps(_, _)
LoadStamps(lu, members) ==
  IF members = <<>> THEN [last_updated |-> lu, exc |-> NoError]
  ELSE IF IsIsoText(Head(members)[2])
       THEN LoadStamps(DictSet(lu, Head(members)[1], fromisoformat(Head(members)[2])),
                       Tail(members))
       ELSE [last_updated |-> lu, exc |-> "ValueError"]

\* The body of the try block of _load_cache_from_disk: the state it leaves and
\* the exception it ends with.
LoadBody(s, f) ==
  CASE f.kind = "unreadable" ->
         [cache |-> s.cache, last_updated |-> s.last_updated, exc |-> "PermissionError"]
    [] f.kind = "malformed" ->
         [cache |-> s.cache, last_updated |-> s.last_updated, exc |-> "JSONDecodeError"]
    [] f.kind = "nonobject" ->
         [cache |-> s.cache, last_updated |-> s.last_updated, exc |-> "AttributeError"]
    [] f.kind = "json" ->
         LET data == f.doc
             c2 == IF "cache" \in DOMAIN data THEN JsonCache(data.cache) ELSE EmptyDict
             members == IF "last_updated" \in DOMAIN data THEN data.last_updated ELSE <<>>
         IN  With(LoadStamps(s.last_updated, members), LAMBDA stamps :
               [cache |-> c2, last_updated |-> stamps.last_updated,
                exc |-> stamps.exc])

\* Returns [cache, last_updated, raised]: raised is the exception that leaves
\* the method, NoError when none does.
_load_cache_from_disk(s, f) ==
  IF f.kind = "absent"
  THEN [cache |-> s.cache, last_updated |-> s.last_updated, raised |-> NoError]
  ELSE With(LoadBody(s, f), LAMBDA b :
         [cache |-> b.cache, last_updated |-> b.last_updated,
          raised |-> IF CaughtByExceptException(b.exc) THEN NoError ELSE b.exc])

\* What the environment lets a write of the file do.
SaveOutcomes == {"ok", "open_fails", "write_fails"}

\* A variant of SaveBody whose successful write leaves the file as it was.
SaveBodyDropped(s, f, outcome) ==
  CASE outcome = "ok" -> [file |-> f, exc |-> NoError]
    [] outcome = "open_fails" -> [file |-> f, exc |-> "PermissionError"]
    [] outcome = "write_fails" -> [file |-> MalformedFile, exc |-> "OSError"]

\* The body of the try block of _save_cache_to_disk: open(CACHE_FILE, 'w')
\* truncates the file, json.dump writes the document into it.
SaveBody(s, f, outcome) ==
  CASE outcome = "ok" -> [file |-> JsonFile(Document(s)), exc |-> NoError]
    [] outcome = "open_fails" -> [file |-> f, exc |-> "PermissionError"]
    [] outcome = "write_fails" -> [file |-> MalformedFile, exc |-> "OSError"]

\* Returns [file, raised].
_save_cache_to_disk(s, f, outcome) ==
  With(SaveBody(s, f, outcome), LAMBDA b :
    [file |-> b.file,
     raised |-> IF CaughtByExceptException(b.exc) THEN NoError ELSE b.exc])

(***************************************************************************)
(* Lifecycle, status and refresh.                                          *)
(***************************************************************************)
\* aiohttp.ClientSession(timeout=aiohttp.ClientTimeout(total=30)), open and
\* closed.
OpenSession == "open"
ClosedSession == "closed"

\* A variant of NoSession: the constructor opens the session at once.
SessionAtConstruction == OpenSession

\* self._session = None
NoSession == "None"

\* if self._session is None or self._session.closed:
\*     self._session = aiohttp.ClientSession(timeout=timeout)
\* No method of the service and no endpoint calls _get_session.
_get_session(sess) ==
  IF sess = NoSession \/ sess = ClosedSession THEN OpenSession ELSE sess

\* if self._session and not self._session.closed: await self._session.close()
HasOpenSession(sess) == sess # NoSession /\ sess # ClosedSession

CloseSession(sess) == IF HasOpenSession(sess) THEN ClosedSession ELSE sess

\* A variant of ClearCache that clears nothing.
ClearNothing(c) == c

\* self._cache.clear()
ClearCache(c) == EmptyDict

initialize(s, f) ==
  With(_load_cache_from_disk(s, f), LAMBDA l :
    [cache |-> l.cache, last_updated |-> l.last_updated,
     initialized |-> l.raised = NoError, raised |-> l.raised])

get_status(s, init) ==
  [initialized |-> init,
   cache_keys |-> DOMAIN s.cache,
   last_updated |-> [k \in DOMAIN s.last_updated |-> isoformat(s.last_updated[k])]]

\* The results of refresh_all, one for each thing the environment lets the
\* write of the file do: [cache, last_updated, file, outcome, raised].
refresh_all(s, t, f, outcomes) ==
  With([cache |-> ClearCache(s.cache), last_updated |-> s.last_updated], LAMBDA cleared :
  With(get_dashboard_summary(cleared, t), LAMBDA d :
    { With(_save_cache_to_disk(d, f, outcome), LAMBDA w :
        [cache |-> d.cache, last_updated |-> d.last_updated, file |-> w.file,
         outcome |-> outcome, raised |-> w.raised]) : outcome \in outcomes }))

\* os.environ.get("ADMIN_API_KEY", "farmhandpro-refresh-2025")
ExpectedKey(environ) == DictGet(environ, "ADMIN_API_KEY", DefaultAdminKey)

\* A variant of Authorized that compares with the built-in default key.
AuthorizedByDefaultKey(api_key, expected_key) == api_key = DefaultAdminKey

\* if api_key != expected_key: raise HTTPException(status_code=401, ...)
Authorized(api_key, expected_key) == api_key = expected_key

(***************************************************************************)
(* The state machine.  Init is the state after data_service =              *)
(* BrazilAgDataService() at import, before the startup event; the file on  *)
(* disk is whatever an earlier run or anybody else left there.             *)
(***************************************************************************)
Svc == [cache |-> cache, last_updated |-> last_updated]

\* The event loop has started no refresh_all, or the one it started has
\* completed.
NoTask == 0

\* A document whose cache has one table and whose timestamp for it is no
\* ISO-8601 text ("not-a-date": no numeric fields).
BadStampFile ==
  JsonFile([cache |-> (BalanceKey("soybeans") :> BalanceSheetFallback("soybeans")),
            last_updated |-> << << BalanceKey("soybeans"), <<>> >> >>])

EmptyObjectFile == JsonFile(<<>>)

InitialFiles ==
  {AbsentFile, UnreadableFile, MalformedFile, NonObjectFile, EmptyObjectFile,
   BadStampFile}

\* 2025-12-31T23:59:59: two ticks later the day, the month and the year change.
StartClocks ==
  {[year |-> 2025, month |-> 12, day |-> 31, second |-> 86399, microsecond |-> 0]}

TickMicros == 1000000 \div 2

\* The clock half a second later.
Later(t) ==
  IF t.microsecond + TickMicros < 1000000
  THEN [t EXCEPT !.microsecond = t.microsecond + TickMicros]
  ELSE IF t.second + 1 < 86400
  THEN [t EXCEPT !.second = t.second + 1, !.microsecond = 0]
  ELSE IF t.day < DaysInMonth(t.year, t.month)
  THEN [t EXCEPT !.day = t.day + 1, !.second = 0, !.microsecond = 0]
  ELSE IF t.month < 12
  THEN [t EXCEPT !.month = t.month + 1, !.day = 1, !.second = 0, !.microsecond = 0]
  ELSE [year |-> t.year + 1, month |-> 1, day |-> 1, second |-> 0, microsecond |-> 0]

InitWith(files, clocks) ==
  /\ cache = EmptyDict
  /\ last_updated = EmptyDict
  /\ initialized = FALSE
  /\ session = NoSession
  /\ file \in files
  /\ now \in clocks
  /\ phase = "constructed"
  /\ pending = 0
  /\ task = NoTask
  /\ inflight = <<>>
  /\ calls = 0
  /\ elapsed = 0
  /\ resp = [op |-> "construct"]

Init == InitWith({AbsentFile, BadStampFile}, StartClocks)

\* Time passes.
Tick ==
  /\ elapsed < MaxElapsed
  /\ now' = Later(now)
  /\ elapsed' = elapsed + 1
  /\ UNCHANGED <<cache, last_updated, initialized, session, file, phase,
                 pending, task, inflight, calls, resp>>

\* The startup event: await data_service.initialize().
Startup ==
  /\ phase = "constructed"
  /\ \E r \in {initialize(Svc, file)} :
         /\ cache' = r.cache
         /\ last_updated' = r.last_updated
         /\ initialized' = r.initialized
         /\ phase' = IF r.raised = NoError THEN "running" ELSE "stopped"
         /\ resp' = [op |-> "initialize", raised |-> r.raised]
  /\ UNCHANGED <<session, file, now, pending, task, inflight, calls, elapsed>>

\* The shutdown event: await data_service.cleanup(), which closes the session
\* if there is an open one and saves the cache.
Shutdown ==
  /\ phase = "running"
  /\ pending = 0
  /\ session' = CloseSession(session)
  /\ \E outcome \in SaveOutcomes :
       \E w \in {_save_cache_to_disk(Svc, file, outcome)} :
         /\ file' = w.file
         /\ resp' = [op |-> "cleanup", outcome |-> outcome, raised |-> w.raised,
                     closed_session |-> HasOpenSession(session)]
  /\ phase' = "stopped"
  /\ UNCHANGED <<cache, last_updated, initialized, now, pending, task, inflight,
                 calls, elapsed>>

\* A new process: the module is imported again, the service constructed anew.
Restart ==
  /\ phase = "stopped"
  /\ cache' = EmptyDict
  /\ last_updated' = EmptyDict
  /\ initialized' = FALSE
  /\ session' = NoSession
  /\ pending' = 0
  /\ task' = NoTask
  /\ inflight' = <<>>
  /\ phase' = "constructed"
  /\ resp' = [op |-> "construct"]
  /\ UNCHANGED <<file, now, calls, elapsed>>

\* A request served by one of the fetch endpoints: r is what the service
\* call returns, hit whether the call found its key in the cache, repeated
\* whether the previous outcome was the same call with the same parameters.
Serve(op, args, hit, r) ==
  /\ cache' = r.cache
  /\ last_updated' = r.last_updated
  /\ resp' = [op |-> op, args |-> args, hit |-> hit, status |-> 200, body |-> r.ret,
              repeated |-> resp.op = op /\ resp.args = args]
  /\ calls' = calls + 1
  /\ UNCHANGED <<initialized, session, file, now, phase, pending, task, inflight,
                 elapsed>>

Serving == phase = "running" /\ calls < MaxCalls

GetBalanceSheet(commodity, years) ==
  /\ Serving
  /\ Serve("get_balance_sheet", << commodity, years >>,
           BalanceKey(commodity) \in DOMAIN cache,
           get_balance_sheet(Svc, now, commodity, years))

GetSoyComplexBalance ==
  /\ Serving
  /\ Serve("get_soy_complex_balance", <<>>, FALSE, get_soy_complex_balance(Svc, now))

GetMonthlyExports(commodity, year, include_china) ==
  /\ Serving
  /\ Serve("get_monthly_exports", << commodity, year, include_china >>,
           ExportsKey(commodity, year) \in DOMAIN cache,
           get_monthly_exports(Svc, now, commodity, year, include_china))

GetExportsByDestination(commodity, year, top_n) ==
  /\ Serving
  /\ Serve("get_exports_by_destination", << commodity, year, top_n >>, FALSE,
           get_exports_by_destination(Svc, now, commodity, year, top_n))

GetExportsByPort(commodity, year) ==
  /\ Serving
  /\ Serve("get_exports_by_port", << commodity, year >>, FALSE,
           get_exports_by_port(Svc, now, commodity, year))

GetProduction(commodity, years) ==
  /\ Serving
  /\ Serve("get_production", << commodity, years >>, FALSE,
           get_production(Svc, now, commodity, years))

GetPrices(commodity, year, location) ==
  /\ Serving
  /\ Serve("get_monthly_prices", << commodity, year, location >>, FALSE,
           get_monthly_prices(Svc, now, commodity, year, location))

GetDashboardSummary ==
  /\ Serving
  /\ Serve("get_dashboard_summary", <<>>, FALSE, get_dashboard_summary(Svc, now))

GetStatus ==
  /\ Serving
  /\ resp' = [op |-> "get_status", args |-> <<>>, status |-> 200,
              body |-> get_status(Svc, initialized)]
  /\ calls' = calls + 1
  /\ UNCHANGED <<cache, last_updated, initialized, session, file, now, phase,
                 pending, task, inflight, elapsed>>

\* POST /api/v1/admin/refresh; environ is os.environ at the time of the call.
RefreshData(api_key, environ) ==
  /\ Serving
  /\ IF Authorized(api_key, ExpectedKey(environ))
     THEN /\ pending < MaxPending
          /\ pending' = pending + 1
          /\ resp' = [op |-> "refresh_data", args |-> << api_key >>,
                      environ |-> environ, status |-> 200,
                      body |-> [status |-> "refresh_started"]]
     ELSE /\ pending' = pending
          /\ resp' = [op |-> "refresh_data", args |-> << api_key >>,
                      environ |-> environ, status |-> 401,
                      body |-> [detail |-> "Invalid API key"]]
  /\ calls' = calls + 1
  /\ UNCHANGED <<cache, last_updated, initialized, session, file, now, phase,
                 task, inflight, elapsed>>

\* The background task runs data_service.refresh_all().
RunRefreshAll ==
  /\ phase = "running"
  /\ pending > 0
  /\ \E r \in refresh_all(Svc, now, file, SaveOutcomes) :
       /\ cache' = r.cache
       /\ last_updated' = r.last_updated
       /\ file' = r.file
       /\ resp' = [op |-> "refresh_all", outcome |-> r.outcome, raised |-> r.raised]
  /\ pending' = pending - 1
  /\ UNCHANGED <<initialized, session, now, phase, task, inflight, calls, elapsed>>

(***************************************************************************)
(* Spec: the whole lifecycle (startup, requests, admin refresh, shutdown,  *)
(* a new process), the fetch endpoints that write the cache with a few     *)
(* arguments each.                                                         *)
(***************************************************************************)
ApiKeys == {DefaultAdminKey, "s3cret"}
Environs == {EmptyDict, [v \in {"ADMIN_API_KEY"} |-> "s3cret"]}

Next ==
  \/ Tick
  \/ Startup
  \/ Shutdown
  \/ Restart
  \/ GetBalanceSheet("wheat", 2)
  \/ GetMonthlyExports("soybeans", 2025, TRUE)
  \/ GetDashboardSummary
  \/ GetStatus
  \/ \E k \in ApiKeys, e \in Environs : RefreshData(k, e)
  \/ RunRefreshAll

Spec == Init /\ [][Next]_vars

(***************************************************************************)
(* SpecFetch: the seven fetch endpoints, twice each, on the cache a        *)
(* startup leaves, the clock advancing between the calls.                  *)
(***************************************************************************)
FetchCommodities == {"soybeans", "wheat"}
FetchYearsBack == {2, 6}
FetchYears == {2025}
FetchTopN == {3}
FetchLocations == {None, Some("Sorriso (MT)")}

NextFetch ==
  \/ Tick
  \/ Startup
  \/ \E c \in FetchCommodities, y \in FetchYearsBack : GetBalanceSheet(c, y)
  \/ GetSoyComplexBalance
  \/ \E c \in FetchCommodities, y \in FetchYears, ic \in BOOLEAN :
       GetMonthlyExports(c, y, ic)
  \/ \E c \in FetchCommodities, y \in FetchYears, n \in FetchTopN :
       GetExportsByDestination(c, y, n)
  \/ \E c \in FetchCommodities, y \in FetchYears : GetExportsByPort(c, y)
  \/ \E c \in FetchCommodities, y \in FetchYearsBack : GetProduction(c, y)
  \/ \E c \in FetchCommodities, y \in FetchYears, loc \in FetchLocations :
       GetPrices(c, y, loc)

SpecFetch == Init /\ [][NextFetch]_vars

(***************************************************************************)
(* SpecStartup: startup on every kind of cache file, followed by the rest  *)
(* of the lifecycle.                                                       *)
(***************************************************************************)
\* A document whose first timestamp is ISO-8601 text and whose second is not.
PartlyStampedFile ==
  JsonFile([cache |-> (BalanceKey("corn") :> BalanceSheetFallback("corn")),
            last_updated |-> << << BalanceKey("corn"), << 2025, 6, 1 >> >>,
                                << BalanceKey("wheat"), << 2025, 13, 1 >> >> >>])

InitStartup == InitWith(InitialFiles \cup {PartlyStampedFile}, StartClocks)

NextStartup ==
  \/ Tick
  \/ Startup
  \/ Shutdown
  \/ Restart
  \/ GetStatus
  \/ GetBalanceSheet("corn", 6)

SpecStartup == InitStartup /\ [][NextStartup]_vars

(***************************************************************************)
(* SpecBalance: the balance-sheet endpoint for every commodity and every   *)
(* number of years its query parameter admits.                             *)
(***************************************************************************)
MaxYears == 20

NextBalance ==
  \/ Startup
  \/ \E c \in Commodity, y \in 1..MaxYears : GetBalanceSheet(c, y)

SpecBalance == Init /\ [][NextBalance]_vars

(***************************************************************************)
(* SpecExports: the monthly-exports endpoint for every commodity, for the  *)
(* year of the date and the year before, on two dates.                     *)
(***************************************************************************)
\* A document written by somebody else: an exports table whose volumes have
\* three decimals and whose second row has no volume.
SparseExportsFile ==
  JsonFile([cache |-> (ExportsKey("wheat", 2024) :>
                         << [year |-> 2024, month |-> 1, volumeMmt |-> 3702],
                            [year |-> 2024, month |-> 2] >>),
            last_updated |-> << << ExportsKey("wheat", 2024),
                                   << 2025, 1, 2, 3, 4, 5 >> >> >>])

ExportClocks ==
  {[year |-> 2025, month |-> 12, day |-> 31, second |-> 86399, microsecond |-> 0],
   [year |-> 2025, month |-> 7, day |-> 17, second |-> 43200, microsecond |-> 0]}

ExportYears == {2024, 2025}

InitExports == InitWith({AbsentFile, SparseExportsFile}, ExportClocks)

NextExports ==
  \/ Startup
  \/ \E c \in Commodity, y \in ExportYears, ic \in BOOLEAN :
       calls < MaxExportCalls /\ GetMonthlyExports(c, y, ic)

SpecExports == InitExports /\ [][NextExports]_vars

(***************************************************************************)
(* SpecResolver: the four category fetches of the service called with      *)
(* commodities their fallback tables know and do not know; "rice" is a     *)
(* commodity no table knows (the endpoints reject it, a direct caller of   *)
(* the service can pass it).                                               *)
(***************************************************************************)
ResolverCommodities == {"soybeans", "wheat", "soy_oil", "rice"}
ResolverLocations == {None, Some("MT")}

NextResolver ==
  \/ Startup
  \/ \E c \in ResolverCommodities : GetBalanceSheet(c, 6)
  \/ \E c \in ResolverCommodities : GetMonthlyExports(c, 2025, TRUE)
  \/ \E c \in ResolverCommodities : GetProduction(c, 10)
  \/ \E c \in ResolverCommodities, loc \in ResolverLocations : GetPrices(c, 2025, loc)

SpecResolver == Init /\ [][NextResolver]_vars

(***************************************************************************)
(* SpecAdmin: the lifecycle with the admin refresh.  Starlette runs the    *)
(* background tasks of a response once the response has been sent, on the  *)
(* same event loop, and nothing the service does blocks the loop: a        *)
(* scheduled refresh_all that stays enabled is eventually run.             *)
(***************************************************************************)
NextAdmin ==
  \/ Startup
  \/ Shutdown
  \/ Restart
  \/ GetBalanceSheet("wheat", 2)
  \/ \E k \in ApiKeys, e \in Environs : RefreshData(k, e)
  \/ RunRefreshAll

SpecAdmin == Init /\ [][NextAdmin]_vars /\ WF_vars(RunRefreshAll)

(***************************************************************************)
(* SpecLoop: refresh_all as the event loop runs it, one statement or one   *)
(* awaited call at a time, next to the request handlers.  asyncio runs one *)
(* coroutine at a time and takes the next one only when the running one    *)
(* suspends; "await c()" runs the coroutine c inside the awaiter and        *)
(* suspends the awaiter only if c suspends.                                *)
(***************************************************************************)
\* What each coroutine of the service awaits.
Awaits ==
  [refresh_all |-> {"get_dashboard_summary"},
   get_dashboard_summary |->
     {"get_balance_sheet", "get_monthly_exports", "get_production",
      "get_monthly_prices", "get_exports_by_destination", "get_exports_by_port",
      "get_soy_complex_balance"},
   get_balance_sheet |-> {},
   get_monthly_exports |-> {},
   get_production |-> {},
   get_monthly_prices |-> {},
   get_exports_by_destination |-> {},
   get_exports_by_port |-> {},
   get_soy_complex_balance |-> {},
   get_status |-> {},
   initialize |-> {},
   cleanup |-> {"ClientSession.close"}]

\* The coroutine and everything that runs inside it: what it awaits, what
\* that awaits, and so on.
RECURSIVE RunsInside(_)
RunsInside(awaited) ==
  IF awaited \notin DOMAIN Awaits THEN {awaited}
  ELSE {awaited} \cup UNION {RunsInside(a) : a \in Awaits[awaited]}

\* A variant of Suspends: every await gives the event loop a turn (as if each
\* coroutine began with await asyncio.sleep(0)).
SuspendsAtEveryAwait(awaited) == TRUE

\* Whether awaiting this suspends the awaiter: it does if something that
\* runs inside it is no coroutine of the service (a future, a sleep, a
\* socket).
Suspends(awaited) == \E a \in RunsInside(awaited) : a \notin DOMAIN Awaits

\* The awaited calls of get_dashboard_summary in source order.
DashboardCalls ==
  << [op |-> "get_balance_sheet", args |-> << "soybeans", 6 >>],
     [op |-> "get_balance_sheet", args |-> << "corn", 6 >>],
     [op |-> "get_monthly_exports", args |-> << "soybeans", 2024, TRUE >>],
     [op |-> "get_monthly_exports", args |-> << "soybeans", 2025, TRUE >>],
     [op |-> "get_monthly_exports", args |-> << "corn", 2024, TRUE >>],
     [op |-> "get_monthly_exports", args |-> << "corn", 2025, TRUE >>],
     [op |-> "get_production", args |-> << "soybeans", 11 >>],
     [op |-> "get_production", args |-> << "corn", 11 >>],
     [op |-> "get_monthly_prices", args |-> << "soybeans", 2024, None >>],
     [op |-> "get_monthly_prices", args |-> << "soybeans", 2025, None >>],
     [op |-> "get_monthly_prices", args |-> << "corn", 2024, None >>],
     [op |-> "get_monthly_prices", args |-> << "corn", 2025, None >>],
     [op |-> "get_exports_by_destination", args |-> << "soybeans", 2025, 10 >>],
     [op |-> "get_exports_by_port", args |-> << "soybeans", 2025 >>],
     [op |-> "get_soy_complex_balance", args |-> <<>>] >>

\* The service call a record of DashboardCalls stands for.
Call(c, s, t) ==
  CASE c.op = "get_balance_sheet" -> get_balance_sheet(s, t, c.args[1], c.args[2])
    [] c.op = "get_monthly_exports" ->
         get_monthly_exports(s, t, c.args[1], c.args[2], c.args[3])
    [] c.op = "get_production" -> get_production(s, t, c.args[1], c.args[2])
    [] c.op = "get_monthly_prices" ->
         get_monthly_prices(s, t, c.args[1], c.args[2], c.args[3])
    [] c.op = "get_exports_by_destination" ->
         get_exports_by_destination(s, t, c.args[1], c.args[2], c.args[3])
    [] c.op = "get_exports_by_port" -> get_exports_by_port(s, t, c.args[1], c.args[2])
    [] c.op = "get_soy_complex_balance" -> get_soy_complex_balance(s, t)

\* task = k in 1..Len(DashboardCalls): refresh_all has cleared the cache and
\* stands at the k-th await of get_dashboard_summary; task = Len + 1: the
\* summary has returned and the save is next.
Refreshing == task # NoTask
AtAwait == task \in 1..Len(DashboardCalls)

\* A handler that has looked its key up and has not yet returned.
MidHandler(h) == h.pc = "checked"

\* A variant of LoopFree: the event loop takes a request at any time.
LoopAlwaysFree == TRUE

\* The event loop can take a request: no refresh_all is under way, or the one
\* under way is suspended at its await; and no handler is under way, or the
\* ones under way are suspended.
LoopFree ==
  /\ \/ ~Refreshing
     \/ AtAwait /\ Suspends("refresh_all") /\ Suspends(DashboardCalls[task].op)
  /\ \A i \in 1..Len(inflight) : MidHandler(inflight[i]) => Suspends(inflight[i].op)

Scheduled(Handler) == LoopFree /\ Handler

\* logger.info(...); self._cache.clear(); the coroutine of
\* get_dashboard_summary is created and entered.
StartRefreshAll ==
  /\ phase = "running"
  /\ pending > 0
  /\ ~Refreshing
  /\ cache' = ClearCache(cache)
  /\ task' = 1
  /\ UNCHANGED <<last_updated, initialized, session, file, now, phase, pending,
                 inflight, calls, elapsed, resp>>

\* The next awaited call of get_dashboard_summary.
RefreshAwait ==
  /\ AtAwait
  /\ \E r \in {Call(DashboardCalls[task], Svc, now)} :
       /\ cache' = r.cache
       /\ last_updated' = r.last_updated
  /\ task' = task + 1
  /\ UNCHANGED <<initialized, session, file, now, phase, pending, inflight, calls,
                 elapsed, resp>>

\* get_dashboard_summary returns; self._save_cache_to_disk(); refresh_all
\* returns.
FinishRefreshAll ==
  /\ task = Len(DashboardCalls) + 1
  /\ \E outcome \in SaveOutcomes :
       \E w \in {_save_cache_to_disk(Svc, file, outcome)} :
         /\ file' = w.file
         /\ resp' = [op |-> "refresh_all", outcome |-> outcome, raised |-> w.raised]
  /\ task' = NoTask
  /\ pending' = pending - 1
  /\ UNCHANGED <<cache, last_updated, initialized, session, now, phase, inflight,
                 calls, elapsed>>

NextLoop ==
  \/ Startup
  \/ Scheduled(GetBalanceSheet("soybeans", 6))
  \/ Scheduled(GetMonthlyExports("corn", 2025, TRUE))
  \/ Scheduled(GetStatus)
  \/ Scheduled(RefreshData(DefaultAdminKey, EmptyDict))
  \/ StartRefreshAll
  \/ RefreshAwait
  \/ FinishRefreshAll

SpecLoop == Init /\ [][NextLoop]_vars

(***************************************************************************)
(* SpecRace: concurrent requests to get_balance_sheet and                  *)
(* get_monthly_exports, each handler run in two steps, the look-up of the  *)
(* key ("if cache_key in self._cache") and the rest of the coroutine, with *)
(* the event loop taking another handler in between only if the coroutine  *)
(* suspends there.                                                         *)
(***************************************************************************)
HandlerKey(h) ==
  IF h.op = "get_balance_sheet" THEN BalanceKey(h.args[1])
  ELSE ExportsKey(h.args[1], h.args[2])

\* The dict without the key.
Without(d, k) == [x \in DOMAIN d \ {k} |-> d[x]]

\* The request has reached the server; its handler has not started.
Arrive(op, args) ==
  /\ phase = "running"
  /\ Len(inflight) < MaxCalls
  /\ inflight' = Append(inflight, [op |-> op, args |-> args, pc |-> "arrived",
                                   found |-> FALSE, ret |-> [success |-> FALSE]])
  /\ UNCHANGED <<cache, last_updated, initialized, session, file, now, phase,
                 pending, task, calls, elapsed, resp>>

\* cache_key = ...; if cache_key in self._cache:
HandlerCheck(i) ==
  /\ phase = "running"
  /\ LoopFree
  /\ inflight[i].pc = "arrived"
  /\ inflight' = [inflight EXCEPT ![i].pc = "checked",
                                  ![i].found = HandlerKey(inflight[i]) \in DOMAIN cache]
  /\ UNCHANGED <<cache, last_updated, initialized, session, file, now, phase,
                 pending, task, calls, elapsed, resp>>

\* The branch the look-up chose, to the return: the cached table on a hit;
\* the fallback, the two writes and the fallback on a miss, whatever the
\* cache holds by now.  (A hit whose key is gone by now does not occur: no
\* refresh runs here.)
HandlerComplete(i) ==
  /\ phase = "running"
  /\ MidHandler(inflight[i])
  /\ inflight[i].found => HandlerKey(inflight[i]) \in DOMAIN cache
  /\ \E r \in {Call(inflight[i],
                     IF inflight[i].found THEN Svc
                     ELSE [cache |-> Without(cache, HandlerKey(inflight[i])),
                           last_updated |-> last_updated],
                     now)} :
       /\ cache' = r.cache
       /\ last_updated' = r.last_updated
       /\ inflight' = [inflight EXCEPT ![i].pc = "done", ![i].ret = r.ret]
       /\ resp' = [op |-> inflight[i].op, args |-> inflight[i].args,
                   hit |-> inflight[i].found, status |-> 200, body |-> r.ret,
                   repeated |-> resp.op = inflight[i].op /\ resp.args = inflight[i].args]
  /\ calls' = calls + 1
  /\ UNCHANGED <<initialized, session, file, now, phase, pending, task, elapsed>>

RaceYearsBack == {2, 6}

NextRace ==
  \/ Tick
  \/ Startup
  \/ \E y \in RaceYearsBack : Arrive("get_balance_sheet", << "wheat", y >>)
  \/ Arrive("get_monthly_exports", << "soybeans", 2025, TRUE >>)
  \/ \E i \in 1..Len(inflight) : HandlerCheck(i)
  \/ \E i \in 1..Len(inflight) : HandlerComplete(i)

SpecRace == Init /\ [][NextRace]_vars

(***************************************************************************)
(* SpecOwn: the whole lifecycle of Spec, started with no cache file, so    *)
(* that every file a startup loads is one this service wrote.              *)
(***************************************************************************)
InitOwn == InitWith({AbsentFile}, StartClocks)

SpecOwn == InitOwn /\ [][Next]_vars

(***************************************************************************)
(* SpecKeep: the lifecycle of SpecOwn with the two caching fetches called  *)
(* with several windows and flags, so that entries are hit    *)
(* with other parameters than those they were stored with.                 *)
(***************************************************************************)
KeepBalanceCommodities == {"wheat"}
KeepExportCommodities == {"soybeans"}

NextKeep ==
  \/ Tick
  \/ Startup
  \/ Shutdown
  \/ Restart
  \/ \E c \in KeepBalanceCommodities, y \in RaceYearsBack : GetBalanceSheet(c, y)
  \/ \E c \in KeepExportCommodities, ic \in BOOLEAN : GetMonthlyExports(c, 2025, ic)
  \/ GetDashboardSummary
  \/ GetStatus
  \/ RefreshData(DefaultAdminKey, EmptyDict)
  \/ RunRefreshAll

SpecKeep == InitOwn /\ [][NextKeep]_vars

(***************************************************************************)
(* SpecWindow: balance sheets of two commodities asked for with a small    *)
(* and a large number of years, in any order, across a shutdown and a new  *)
(* process that loads the file the service saved.                          *)
(***************************************************************************)
WindowCommodities == {"soybeans", "wheat"}

NextWindow ==
  \/ Tick
  \/ Startup
  \/ Shutdown
  \/ Restart
  \/ \E c \in WindowCommodities, y \in RaceYearsBack : GetBalanceSheet(c, y)

SpecWindow == InitOwn /\ [][NextWindow]_vars

(***************************************************************************)
(* Properties.                                                             *)
(***************************************************************************)
CachedOps == {"get_balance_sheet", "get_monthly_exports"}

UncachedOps ==
  {"get_soy_complex_balance", "get_exports_by_destination", "get_exports_by_port",
   "get_production", "get_monthly_prices"}

DataAccessOps == CachedOps \cup UncachedOps

\* The cache key of a balance-sheet or monthly-exports response.
KeyOf(r) ==
  IF r.op = "get_balance_sheet" THEN BalanceKey(r.args[1])
  ELSE ExportsKey(r.args[1], r.args[2])

\* The fallback content of a balance-sheet or monthly-exports call made at t.
FallbackOf(r, t) ==
  IF r.op = "get_balance_sheet" THEN BalanceSheetFallback(r.args[1])
  ELSE _get_monthly_exports_fallback(r.args[1], r.args[2], t)

\* The last min(years, len) rows of a table.
LastRows(table, years) ==
  [i \in 1..Min(years, Len(table)) |-> table[Len(table) - Min(years, Len(table)) + i]]

\* What a response returns of the table stored under its key.
ReturnsFrom(r, table) ==
  IF r.op = "get_balance_sheet"
  THEN /\ Len(r.body.data) = Min(r.args[2], Len(table))
       /\ \A i \in 1..Len(r.body.data) : r.body.data[i] = LastRows(table, r.args[2])[i]
  ELSE r.body.data = table

\* The payload of a response.
DataOf(r) ==
  IF r.op = "get_soy_complex_balance"
  THEN << r.body.soja_graos, r.body.farelo, r.body.oleo >>
  ELSE r.body.data

\* This step serves a request.
FetchStep == calls' = calls + 1

\* C1 (as stated): after a call of any of the seven data-access operations
\* the cache holds an entry for the call: under its key for the balance sheet
\* and the monthly exports, under some key of its category for the others.
C1_EveryOperationCaches ==
  resp.op \in DataAccessOps =>
    IF resp.op \in CachedOps THEN KeyOf(resp) \in DOMAIN cache
    ELSE \E k \in DOMAIN cache : k[1] = resp.op

\* C1 (amended): get_balance_sheet and get_monthly_exports look their key up
\* in the cache; when it is there they return the cached table and leave it,
\* otherwise they return the fallback content and store it under the key.
\* The other five data-access operations neither read nor write the cache:
\* they leave the cache and the last-updated map as they were.
C1_OnlyTwoOperationsCache ==
  [][ (FetchStep /\ resp'.op \in DataAccessOps) =>
        IF resp'.op \in CachedOps
        THEN /\ KeyOf(resp') \in DOMAIN cache'
             /\ IF KeyOf(resp') \in DOMAIN cache
                THEN /\ cache'[KeyOf(resp')] = cache[KeyOf(resp')]
                     /\ ReturnsFrom(resp', cache[KeyOf(resp')])
                ELSE /\ cache'[KeyOf(resp')] = FallbackOf(resp', now)
                     /\ ReturnsFrom(resp', FallbackOf(resp', now))
        ELSE cache' = cache /\ last_updated' = last_updated ]_vars

\* C1 witness: a monthly-exports call missed and its table is now cached.
C1_MissStored ==
  /\ resp.op = "get_monthly_exports"
  /\ ~resp.hit
  /\ KeyOf(resp) \in DOMAIN cache
  /\ cache[KeyOf(resp)] = resp.body.data
  /\ Len(resp.body.data) = 12

\* C2: a get_balance_sheet or get_monthly_exports call whose key is absent
\* stores the fallback value under the key, stamps last_updated[key] with the
\* time of the call and changes no other entry of the cache or of the
\* last-updated map; a call whose key is present changes neither.
C2_FetchFrame ==
  [][ (FetchStep /\ resp'.op \in CachedOps) =>
        IF KeyOf(resp') \in DOMAIN cache
        THEN cache' = cache /\ last_updated' = last_updated
        ELSE /\ DOMAIN cache' = DOMAIN cache \cup {KeyOf(resp')}
             /\ \A k \in DOMAIN cache : cache'[k] = cache[k]
             /\ cache'[KeyOf(resp')] = FallbackOf(resp', now)
             /\ DOMAIN last_updated' = DOMAIN last_updated \cup {KeyOf(resp')}
             /\ \A k \in DOMAIN last_updated \ {KeyOf(resp')} :
                  last_updated'[k] = last_updated[k]
             /\ last_updated'[KeyOf(resp')] = now ]_vars

\* C2 witness: a call missed in a cache that held other keys, and its key is
\* stamped with the time of the call.
C2_MissAmongOthers ==
  /\ resp.op \in CachedOps
  /\ ~resp.hit
  /\ Cardinality(DOMAIN cache) > 1
  /\ Cardinality(DOMAIN last_updated) > 1
  /\ last_updated[KeyOf(resp)] = now

\* C3 (as stated): a data-access operation called twice in a row with the
\* same parameters returns the same data and the same last_updated.
C3_TwiceSameStamp ==
  [][ (FetchStep /\ resp'.op \in DataAccessOps /\ resp'.repeated) =>
        /\ DataOf(resp') = DataOf(resp)
        /\ resp'.body.last_updated = resp.body.last_updated ]_vars

\* C3 (amended): within one process run and with no refresh in between, a
\* data-access operation called twice with the same parameters returns the
\* same data; the second call of get_balance_sheet or get_monthly_exports
\* returns the last_updated of the first when the last-updated map has the
\* key; the other five operations return the time of each call.
C3_TwiceSameData ==
  [][ (FetchStep /\ resp'.op \in DataAccessOps /\ resp'.repeated) =>
        /\ DataOf(resp') = DataOf(resp)
        /\ (resp'.op \in CachedOps /\ KeyOf(resp') \in DOMAIN last_updated)
             => resp'.body.last_updated = resp.body.last_updated
        /\ resp'.op \in UncachedOps => resp'.body.last_updated = now ]_vars

\* C3 witness: the second of two identical calls hit the cache after the
\* clock advanced and returned the timestamp of the first.
C3_SecondCallLater ==
  /\ resp.op \in CachedOps
  /\ resp.repeated
  /\ resp.hit
  /\ KeyOf(resp) \in DOMAIN last_updated
  /\ resp.body.last_updated = last_updated[KeyOf(resp)]
  /\ resp.body.last_updated # now

\* The keys get_dashboard_summary writes: balance_soybeans, balance_corn,
\* exports_soybeans_2024, exports_soybeans_2025, exports_corn_2024,
\* exports_corn_2025.
DashboardKeys ==
  {BalanceKey("soybeans"), BalanceKey("corn"),
   ExportsKey("soybeans", 2024), ExportsKey("soybeans", 2025),
   ExportsKey("corn", 2024), ExportsKey("corn", 2025)}

\* C4: when refresh_all completes, whatever the cache held before, the key
\* set of the cache is exactly the six keys of the dashboard bundle; and a
\* key outside the bundle enters the cache only by a fetch for that key (or
\* by the load of the cache file at startup).
C4_RefreshLeavesDashboardKeys ==
  [][ /\ (resp'.op = "refresh_all" /\ pending' = pending - 1)
           => DOMAIN cache' = DashboardKeys
      /\ \A k \in DOMAIN cache' \ (DOMAIN cache \cup DashboardKeys) :
           \/ FetchStep /\ resp'.op \in CachedOps /\ KeyOf(resp') = k
           \/ resp'.op = "initialize" ]_vars

\* C4 witness: a refresh completed on a cache that held the wheat balance
\* sheet, which is gone (its old timestamp remains).
C4_RefreshDroppedWheat ==
  /\ resp.op = "refresh_all"
  /\ BalanceKey("wheat") \in DOMAIN last_updated
  /\ BalanceKey("wheat") \notin DOMAIN cache
  /\ DOMAIN cache = DashboardKeys

\* A service as constructed.
Fresh == [cache |-> EmptyDict, last_updated |-> EmptyDict]

\* The state a fresh service loads from the file a successful save of s writes.
SaveThenLoad(s) ==
  _load_cache_from_disk(Fresh, _save_cache_to_disk(s, AbsentFile, "ok").file)

\* C5: in every reachable state, a save that succeeds followed by a load into
\* a fresh service reproduces the cache (keys and values) and the
\* last-updated map (keys and timestamps, to the microsecond).
C5_RoundTrip ==
  /\ SaveThenLoad(Svc).raised = NoError
  /\ SaveThenLoad(Svc).cache = cache
  /\ SaveThenLoad(Svc).last_updated = last_updated

\* C5 witness: a new process has loaded the file the previous one saved, with
\* a timestamp that has a fraction of a second.
C5_ReloadedWithMicroseconds ==
  /\ resp.op = "initialize"
  /\ cache # EmptyDict
  /\ file = JsonFile(Document(Svc))
  /\ \E k \in DOMAIN last_updated : last_updated[k].microsecond # 0

\* The file is absent, cannot be opened, is no JSON, is no JSON object, or
\* has a timestamp that is no ISO-8601 text.
Unusable(f) ==
  \/ f.kind \in {"absent", "unreadable", "malformed", "nonobject"}
  \/ /\ f.kind = "json"
     /\ "last_updated" \in DOMAIN f.doc
     /\ \E i \in 1..Len(f.doc.last_updated) : ~IsIsoText(f.doc.last_updated[i][2])

\* C6 (as stated): after initialize on an absent or unreadable cache file
\* (malformed anywhere, a malformed timestamp included) nothing was raised,
\* the init flag is set and the cache and the last-updated map are empty.
C6_StartupFallsBackToEmpty ==
  (resp.op = "initialize" /\ Unusable(file)) =>
    /\ resp.raised = NoError
    /\ initialized
    /\ cache = EmptyDict
    /\ last_updated = EmptyDict

\* C7: cleanup at shutdown writes the document of the cache and of the
\* last-updated map over the file when the write succeeds; when opening or
\* writing the file fails nothing is raised, cleanup completes, and in every
\* case the cache and the last-updated map in memory are unchanged.
C7_CleanupSwallowsFailure ==
  [][ (phase = "running" /\ phase' = "stopped") =>
        /\ resp'.op = "cleanup"
        /\ resp'.raised = NoError
        /\ cache' = cache
        /\ last_updated' = last_updated
        /\ resp'.outcome = "ok" => file' = JsonFile(Document(Svc))
        /\ resp'.outcome = "open_fails" => file' = file ]_vars

\* C7 witness: cleanup completed although the write of a non-empty cache
\* failed.
C7_FailedWriteSwallowed ==
  /\ resp.op = "cleanup"
  /\ resp.outcome = "write_fails"
  /\ resp.raised = NoError
  /\ phase = "stopped"
  /\ cache # EmptyDict

\* C8: a POST to the admin refresh endpoint answers 401 exactly when its
\* api_key differs from the configured secret, and then schedules no refresh
\* and leaves the cache, the last-updated map and the cache file unchanged.
C8_WrongKeyUnauthorized ==
  [][ (FetchStep /\ resp'.op = "refresh_data") =>
        /\ (resp'.status = 401) = (resp'.args[1] # ExpectedKey(resp'.environ))
        /\ resp'.status = 401 =>
             /\ pending' = pending
             /\ cache' = cache
             /\ last_updated' = last_updated
             /\ file' = file ]_vars

\* C8 witness: the built-in default key was refused because the environment
\* configures another secret, the cache being populated.
C8_DefaultKeyRefused ==
  /\ resp.op = "refresh_data"
  /\ resp.args[1] = DefaultAdminKey
  /\ resp.status = 401
  /\ cache # EmptyDict
  /\ pending = 0

\* C9: for every commodity and every years in 1..20, on a hit and on a miss,
\* get_balance_sheet returns the last min(years, length) rows of the table
\* stored under the key, in the order they are stored.
C9_LastRows ==
  resp.op = "get_balance_sheet" =>
    /\ KeyOf(resp) \in DOMAIN cache
    /\ Len(resp.body.data) = Min(resp.args[2], Len(cache[KeyOf(resp)]))
    /\ \A i \in 1..Len(resp.body.data) :
         resp.body.data[i] =
           cache[KeyOf(resp)][Len(cache[KeyOf(resp)]) - Len(resp.body.data) + i]

\* C9 witness: a hit that returned more than one row and fewer than the
\* table has.
C9_HitTruncated ==
  /\ resp.op = "get_balance_sheet"
  /\ resp.hit
  /\ resp.args[2] > 1
  /\ resp.args[2] < Len(cache[KeyOf(resp)])
  /\ Len(resp.body.data) = resp.args[2]

\* The sum of the volumeMmt of the first n rows, a row without one counting 0.
RECURSIVE VolumeSum(_, _)
VolumeSum(rows, n) ==
  IF n = 0 THEN 0
  ELSE VolumeSum(rows, n - 1)
       + (IF "volumeMmt" \in DOMAIN rows[n] THEN rows[n].volumeMmt ELSE 0)

\* A hundredth of an MMT in the scale of the volumes.
HundredthMmt == VolScale \div 100

\* C10: for every monthly-exports query, hit or miss, ytdTotalMmt is the sum
\* of the volumeMmt of the returned rows rounded to two decimals.
C10_YtdTotal ==
  resp.op = "get_monthly_exports" =>
    resp.body.ytdTotalMmt =
      RoundDiv(VolumeSum(resp.body.data, Len(resp.body.data)), HundredthMmt)
        * HundredthMmt

\* C10 witness: a hit on a table with a partial month whose year-to-date
\* total is no multiple of a tenth of an MMT.
C10_HitWithPartialMonth ==
  /\ resp.op = "get_monthly_exports"
  /\ resp.hit
  /\ \E i \in 1..Len(resp.body.data) :
       /\ "isPartial" \in DOMAIN resp.body.data[i]
       /\ resp.body.data[i].isPartial
  /\ resp.body.ytdTotalMmt % (10 * HundredthMmt) # 0

\* The sum of the toChinaMt of the first n rows, in thirds of a tonne, a row
\* without one or with a null one counting 0.
RECURSIVE ChinaSum(_, _)
ChinaSum(rows, n) ==
  IF n = 0 THEN 0
  ELSE ChinaSum(rows, n - 1)
       + (IF "toChinaMt" \in DOMAIN rows[n] /\ rows[n].toChinaMt # None
          THEN rows[n].toChinaMt[1] ELSE 0)

\* Thirds of a tonne in one unit of the scale of the volumes.
ThirdTonnesPerVolUnit == (3 * 1000000) \div VolScale

HasChinaSplit(commodity) == commodity \in {"soybeans", "soy_meal"}

\* C11 (as stated): ytdToChinaMmt is the sum of the rows' toChinaMt divided
\* by 1,000,000 when include_china is true and the commodity is soybeans or
\* soy_meal, and null otherwise.
C11_ChinaTotalUnrounded ==
  resp.op = "get_monthly_exports" =>
    IF resp.args[3] /\ HasChinaSplit(resp.args[1])
    THEN /\ resp.body.ytdToChinaMmt # None
         /\ resp.body.ytdToChinaMmt[1] * ThirdTonnesPerVolUnit
              = ChinaSum(resp.body.data, Len(resp.body.data))
    ELSE resp.body.ytdToChinaMmt = None

\* C11 (amended): ytdToChinaMmt is the sum of the rows' toChinaMt divided by
\* 1,000,000 and rounded to two decimals when include_china is true and the
\* commodity is soybeans or soy_meal, and null otherwise, on a hit as on a
\* miss, whatever flag the call that cached the key had.
C11_ChinaTotalRounded ==
  resp.op = "get_monthly_exports" =>
    IF resp.args[3] /\ HasChinaSplit(resp.args[1])
    THEN /\ resp.body.ytdToChinaMmt # None
         /\ resp.body.ytdToChinaMmt[1] =
              RoundDiv(ChinaSum(resp.body.data, Len(resp.body.data)),
                       ThirdTonnesPerVolUnit * HundredthMmt) * HundredthMmt
    ELSE resp.body.ytdToChinaMmt = None

\* C11 witness: a soy_meal call with the flag hit the table a call without
\* the flag had cached, and returned a total that is the rounded sum and not
\* the sum.
C11_FlagAfterNoFlag ==
  /\ resp.op = "get_monthly_exports"
  /\ file = AbsentFile
  /\ resp.hit
  /\ ~resp.repeated
  /\ calls = 2
  /\ resp.args[1] = "soy_meal"
  /\ resp.args[3]
  /\ resp.body.ytdToChinaMmt # None
  /\ resp.body.ytdToChinaMmt[1] * ThirdTonnesPerVolUnit
       # ChinaSum(resp.body.data, Len(resp.body.data))

\* C12 (as stated): in every response of get_monthly_exports, whatever
\* fetches, clock advances and save/reload cycles preceded it, a row has
\* isPartial true only if the year of the call is the year of the clock at
\* the time of the response and the row is that of the month of the clock.
C12_PartialOnlyCurrentMonth ==
  [][ (FetchStep /\ resp'.op = "get_monthly_exports") =>
        \A i \in 1..Len(resp'.body.data) :
          ("isPartial" \in DOMAIN resp'.body.data[i] /\ resp'.body.data[i].isPartial)
            => /\ resp'.args[2] = now.year
               /\ resp'.body.data[i].month = now.month ]_vars

CategoryOps ==
  {"get_balance_sheet", "get_monthly_exports", "get_production", "get_monthly_prices"}

\* The commodity of the response is no key of the fallback table of its
\* category.
UnknownToCategory(r) ==
  CASE r.op = "get_balance_sheet" -> r.args[1] \notin DOMAIN balance_sheet_data
    [] r.op = "get_monthly_exports" -> r.args[1] \notin DOMAIN patterns
    [] r.op = "get_production" -> r.args[1] \notin DOMAIN production_data
    [] r.op = "get_monthly_prices" -> r.args[1] \notin DOMAIN prices

\* 5.0 MMT in thirds of a tonne, the unit of volumeMt.
DefaultVolumeMt == 5 * 1000000 * 3

\* C13 (as stated): a category fetch for a commodity its fallback table does
\* not know returns an empty data sequence (and raises nothing).
C13_UnknownCommodityEmpty ==
  (resp.op \in CategoryOps /\ UnknownToCategory(resp)) =>
    resp.status = 200 /\ resp.body.data = <<>>

\* C13 (amended): a category fetch for a commodity its fallback table does
\* not know raises nothing; the balance sheet, the production series and the
\* monthly prices without a location return an empty data sequence; the
\* monthly exports return twelve rows of the default volume of 5.0 MMT (the
\* partial month scaled), and the monthly prices with a location return
\* twelve rows of the default price 100 for that location.
C13_UnknownCommodityDefaults ==
  (resp.op \in CategoryOps /\ UnknownToCategory(resp)) =>
    /\ resp.status = 200
    /\ resp.op \in {"get_balance_sheet", "get_production"} => resp.body.data = <<>>
    /\ (resp.op = "get_monthly_prices" /\ resp.args[3] = None) => resp.body.data = <<>>
    /\ (resp.op = "get_monthly_prices" /\ resp.args[3] # None) =>
         /\ Len(resp.body.data) = 12
         /\ \A i \in 1..12 : /\ resp.body.data[i].priceBrl = 100
                             /\ resp.body.data[i].location = resp.args[3][1]
                             /\ resp.body.data[i].month = i
    /\ resp.op = "get_monthly_exports" =>
         /\ Len(resp.body.data) = 12
         /\ \A i \in 1..12 : /\ resp.body.data[i].month = i
                             /\ ~resp.body.data[i].isPartial
                                  => resp.body.data[i].volumeMt = DefaultVolumeMt

\* C13 witness: the monthly exports of wheat, which the volume patterns do
\* not know, returned twelve rows, the first of 5.0 MMT.
C13_WheatExportsDefault ==
  /\ resp.op = "get_monthly_exports"
  /\ resp.args[1] = "wheat"
  /\ UnknownToCategory(resp)
  /\ Len(resp.body.data) = 12
  /\ resp.body.data[1].volumeMt = DefaultVolumeMt

\* This step answers an admin refresh request whose api_key matches.
RefreshAccepted == FetchStep /\ resp'.op = "refresh_data" /\ resp'.status = 200

\* This step runs a scheduled refresh_all to completion.
RefreshRan == pending' = pending - 1 /\ resp'.op = "refresh_all"

\* The document of the service state after the step.
DocumentAfter == JsonFile(Document([cache |-> cache', last_updated |-> last_updated']))

C15_SessionNeverCreated ==
  /\ session \notin {OpenSession, ClosedSession}
  /\ resp.op = "cleanup" => ~resp.closed_session

\* C15 witness: cleanup ran after a refresh_all had repopulated the cache,
\* and there is still no session.
C15_CleanupAfterRefresh ==
  /\ resp.op = "cleanup"
  /\ phase = "stopped"
  /\ DOMAIN cache = DashboardKeys
  /\ session \notin {OpenSession, ClosedSession}
  /\ ~resp.closed_session

\* A request for a key of the dashboard bundle, or for the status, can be
\* served in this state as far as the lifecycle and the bounds go.
ReaderWaiting == phase = "running" /\ calls < MaxCalls

\* A reader is served in this state.
ReaderServed ==
  \/ ENABLED Scheduled(GetStatus)
  \/ ENABLED Scheduled(GetBalanceSheet("soybeans", 6))
  \/ ENABLED Scheduled(GetMonthlyExports("corn", 2025, TRUE))

\* C16 (as stated): a state between the clear of refresh_all and its
\* repopulation of a key is observable by another request: while refresh_all
\* stands between the two, a fetch or get_status can be served.
C16_ReaderSeesClearedCache ==
  (Refreshing /\ ReaderWaiting) => ReaderServed

\* C16 (amended): refresh_all has no suspension point between its clear and
\* its return (the awaits of refresh_all and of get_dashboard_summary are of
\* coroutines that never suspend, the save is synchronous), so no request is
\* served between the clear and the repopulation: every fetch and every
\* get_status runs before the clear or after the refresh has completed, and
\* none observes a dashboard key missing because a refresh is under way.
C16_RefreshNotInterleaved ==
  /\ [][ FetchStep => ~Refreshing /\ task' = task ]_vars
  /\ [][ Refreshing =>
           \/ task' = task + 1
           \/ task' = NoTask /\ DashboardKeys \subseteq DOMAIN cache'
           \/ UNCHANGED <<cache, last_updated, file, resp, calls, task>> ]_vars

\* C16 witness: refresh_all has cleared a cache that held the soybeans
\* balance sheet and has not yet repopulated it, while a request could be
\* served as far as the lifecycle goes.
C16_ClearedNotRepopulated ==
  /\ task = 1
  /\ cache = EmptyDict
  /\ BalanceKey("soybeans") \in DOMAIN last_updated
  /\ ReaderWaiting
  /\ ~ReaderServed

\* The handlers that have returned.
Done == {i \in 1..Len(inflight) : inflight[i].pc = "done"}

\* The handlers that have returned after finding the key absent and writing
\* it.
Populated(k) ==
  {i \in Done : HandlerKey(inflight[i]) = k /\ ~inflight[i].found}

C18_SameKeySpace ==
  /\ DOMAIN last_updated = DOMAIN cache
  /\ resp.op = "get_status" =>
       DOMAIN resp.body.last_updated \subseteq resp.body.cache_keys

\* The canned volume of a month in the scale of the volumes, times the
\* fraction num/30.
Thirtieths(canned, num) == canned * num

\* The row derived from a volume vol in the scale of the volumes: volumeMt in
\* thirds of a tonne, valueUsd (420 USD a tonne) in thousands of USD.
DerivedFrom(row, commodity, vol) ==
  /\ row.volumeMt = vol * ThirdTonnesPerVolUnit
  /\ row.volumeMmt = RoundDiv(vol, HundredthMmt) * HundredthMmt
  /\ row.valueUsd = vol * (420000 \div VolScale)
  /\ row.toChinaMt =
       IF commodity = "soybeans" THEN Some(vol * (ThirdTonnesPerVolUnit \div 100) * 77)
       ELSE IF commodity = "soy_meal" THEN Some(vol * (ThirdTonnesPerVolUnit \div 100) * 2)
       ELSE None

\* C19: in the table the monthly-export fallback computes, the row of the
\* current month of the current year derives volumeMt, volumeMmt, valueUsd
\* and toChinaMt from the canned volume times day_of_month / 30 (30 whatever
\* the month), and every other row, and every row of another year, from the
\* canned volume itself.
C19_PartialMonthScaled ==
  (resp.op = "get_monthly_exports" /\ ~resp.hit) =>
    /\ Len(resp.body.data) = 12
    /\ \A m \in 1..12 :
         LET canned == Volumes(resp.args[1], resp.args[2])[m]
             current == resp.args[2] = now.year /\ m = now.month
         IN  /\ resp.body.data[m].month = m
             /\ resp.body.data[m].isPartial = current
             /\ DerivedFrom(resp.body.data[m], resp.args[1],
                            Thirtieths(canned, IF current THEN now.day ELSE 30))

\* C19 witness: on the 31st of December the fallback of the current year was
\* computed: the December row carries 31/30 of its canned volume and the
\* November row its canned volume.
C19_ThirtyFirstOfDecember ==
  /\ resp.op = "get_monthly_exports"
  /\ ~resp.hit
  /\ resp.args[1] = "corn"
  /\ resp.args[2] = now.year
  /\ now.month = 12 /\ now.day = 31
  /\ resp.body.data[12].isPartial
  /\ resp.body.data[12].volumeMt * 30 = 450 * 10000 * 3 * 31
  /\ resp.body.data[11].volumeMt = 600 * 10000 * 3

\* A step that runs refresh_all, loads the cache file at startup, or starts a
\* new process.
ReplacingStep ==
  \/ pending' < pending
  \/ phase = "constructed"
  \/ phase' = "constructed"

\* Every entry of the cache is in the cache after the step, with its value.
EntriesKept == \A k \in DOMAIN cache : k \in DOMAIN cache' /\ cache'[k] = cache[k]

\* C20: no step other than a run of refresh_all, the load of the cache file
\* at startup or the start of a new process removes an entry of the cache or
\* changes its value: not a fetch, with whatever parameters, a dashboard
\* call, a get_status call, a save, or the passing of time.
C20_EntriesKept == [][ReplacingStep \/ EntriesKept]_vars

\* C20 witness: with the exports of 2025 in the cache, the wheat balance sheet
\* was served from the cache with a window of two years, and the cache still
\* holds the whole table and the exports.
C20_HitLeavesWholeTable ==
  /\ resp.op = "get_balance_sheet"
  /\ resp.hit
  /\ resp.args = << "wheat", 2 >>
  /\ Len(resp.body.data) = 2
  /\ Len(cache[BalanceKey("wheat")]) > 2
  /\ \E c \in KeepExportCommodities : ExportsKey(c, 2025) \in DOMAIN cache

\* C21: whatever calls came before, get_balance_sheet(commodity, years)
\* returns the last min(years, length) rows of the fallback table of the
\* commodity, and the cache holds that table whole under balance_<commodity>.
C21_WindowOfWholeTable ==
  /\ \A c \in WindowCommodities :
       BalanceKey(c) \in DOMAIN cache => cache[BalanceKey(c)] = BalanceSheetFallback(c)
  /\ resp.op = "get_balance_sheet" =>
       resp.body.data = LastRows(BalanceSheetFallback(resp.args[1]), resp.args[2])

\* C21 witness: the second call of the service, soybeans with years = 6, found
\* the key that a first call with years = 2 had stored, and returned six rows.
C21_TwoThenSix ==
  /\ resp.op = "get_balance_sheet"
  /\ resp.args = << "soybeans", 6 >>
  /\ resp.hit
  /\ ~resp.repeated
  /\ calls = 2
  /\ file = AbsentFile
  /\ Len(resp.body.data) = 6

\* C22: in every state the service reaches from an empty cache and no cache
\* file (fetches, dashboard calls, refresh_all, saves, loads of the file it
\* saved), every key of the cache has a timestamp in last_updated, and a
\* balance-sheet or monthly-exports call that finds its key in the cache
\* returns the timestamp stored for the key.
C22_CachedKeysStamped ==
  /\ DOMAIN cache \subseteq DOMAIN last_updated
  /\ (resp.op \in CachedOps /\ resp.hit) =>
       /\ KeyOf(resp) \in DOMAIN last_updated
       /\ resp.body.last_updated = last_updated[KeyOf(resp)]

\* C22 witness: the second call of the service found the wheat balance sheet
\* that a new process loaded from the file saved at shutdown, and returned a
\* timestamp that is not the time of the call.
C22_HitAfterReload ==
  /\ resp.op = "get_balance_sheet"
  /\ resp.hit
  /\ calls = 2
  /\ file.kind = "json"
  /\ BalanceKey("wheat") \in DOMAIN file.doc.cache
  /\ KeyOf(resp) = BalanceKey("wheat")
  /\ resp.body.last_updated # now
====
